---- MODULE Spec2Model ----
(***************************************************************************)
(* The reflow oven controller of reflowOvenController.ino: the sampling    *)
(* scheduler, the reflow phase state machine, the cancel check, the button *)
(* debounce state machine and the final heater re-assertion of loop().     *)
(*                                                                         *)
(* loop() is one sequential pass; pc is the position inside it.  The       *)
(* passes are split where the order of two assignments to reflowPhase and  *)
(* ovenStatus is visible: the fault override (lines 222, 223), the first   *)
(* statement of every case of the phase switch and the rest of the case,   *)
(* the Peak timeout (lines 364, 367) and the cancel (lines 442, 445).      *)
(*                                                                         *)
(* millis() is the variable now; it is read when a pass begins, and the    *)
(* pass is over before it moves again.  An unsigned long is held as its    *)
(* 32 bit pattern read in two's complement (2^32 - k is -k), so that + and *)
(* - are the wrapping machine operations and ULongGT is the unsigned       *)
(* comparison.  Temperatures are whole degrees.                            *)
(*                                                                         *)
(* Soak, Peak and Complete end on the clock, 90000, 50000 and 1000 ms      *)
(* after they began.  The passes that sit such a phase out with steady     *)
(* inputs are taken in one step, Dwell, which leaves the controller at the *)
(* instant the phase runs out.                                             *)
(*                                                                         *)
(* Four specifications share the actions.  Spec starts when setup() ends.  *)
(* SpecLate takes the controller up 59996 ms before millis() rolls over.   *)
(* SpecRamp starts as Spec does with readings and instants that meet the   *)
(* ramp rule at equality and let the display timer fire while the oven is  *)
(* on.  SpecSteady follows runs for ever: it adds SteadyStride, the passes *)
(* of 125 * 2^31 ms in Preheat or Reflow with a steady reading, and states *)
(* that loop() keeps being called.  The variable scenario tells which      *)
(* readings and instants the environment offers.                           *)
(***************************************************************************)
EXTENDS Integers, FiniteSets, Sequences, TLC

\* ***** CONSTANTS ***** (lines 119-129)
RAMPUP == 3
ROOM_TEMPERATURE == 50
SOAK_TEMPERATURE == 150
SOAK_PERIOD == 90000
PEAK_TEMPERATURE == 237
PEAK_PERIOD == 50000
COOL_TEMPERATURE == 100
READ_INTERVAL_TIME == 200
DISPLAY_INTERVAL_TIME == 1000
DEBOUNCE_PERIOD_MIN == 50
\* buzzerPeriod = millis() + 1000 (line 388)
BUZZER_TIME == 1000
\* delay(2500) of setup() (line 194): the clock when loop() first runs
SETUP_DELAY == 2500

\* the fault codes readThermocouple returns (MAX31855 library), lines 218-219
FAULT_OPEN == 10000
FAULT_SHORT_GND == 10001
FAULT_SHORT_VCC == 10002

\* reflowPhase_t (lines 69-80)
ReflowPhase ==
  {"REFLOW_PHASE_IDLE", "REFLOW_PHASE_PREHEAT", "REFLOW_PHASE_SOAK",
   "REFLOW_PHASE_REFLOW", "REFLOW_PHASE_PEAK", "REFLOW_PHASE_COOL",
   "REFLOW_PHASE_COMPLETE", "REFLOW_PHASE_TOO_HOT", "REFLOW_PHASE_ERROR"}

\* ovenStatus_t (lines 98-102)
OvenStatus == {"OVEN_OFF", "OVEN_ON"}

\* button_t (lines 104-109)
Button == {"BUTTON_NONE", "BUTTON_1", "BUTTON_2"}

\* debounceState_t (lines 111-116)
DebounceState ==
  {"DEBOUNCE_STATE_IDLE", "DEBOUNCE_STATE_CHECK", "DEBOUNCE_STATE_RELEASE"}

\* the phases whose case sets ovenStatus = OVEN_ON (lines 290, 314, 336, 360)
HeatingPhases ==
  {"REFLOW_PHASE_PREHEAT", "REFLOW_PHASE_SOAK", "REFLOW_PHASE_REFLOW",
   "REFLOW_PHASE_PEAK"}

OffPhases == ReflowPhase \ HeatingPhases

FaultCodes == {FAULT_OPEN, FAULT_SHORT_GND, FAULT_SHORT_VCC}

\* the fault test of lines 218-219 and 420-421
IsFault(t) == (t = FAULT_OPEN) \/ (t = FAULT_SHORT_GND) \/ (t = FAULT_SHORT_VCC)

\* unsigned long a > b on 32 bit patterns
ULongGT(a, b) == IF (a < 0) = (b < 0) THEN a > b ELSE a < 0

\* a 32 bit pattern 2^31 further on: x + 2^31 modulo 2^32
HalfWrap(x) == IF x < 0 THEN (x + 2147483647) + 1 ELSE (x - 2147483647) - 1

\* unsigned long a - b on 32 bit patterns, for patterns of either sign
ULongMinus(a, b) ==
  IF (a < 0) = (b < 0) THEN a - b ELSE HalfWrap(HalfWrap(a) - b)

(***************************************************************************)
(* The environment: what the thermocouple may return, what analogRead may  *)
(* return, and the instants at which the clock is looked at.               *)
(***************************************************************************)
Temperatures == {49, 50, 100, 150, 237}

Readings == Temperatures \cup FaultCodes

RawInputs == {0, 1023}

\* the instants at which the clock is looked at, as offsets from the epoch:
\* the end of setup(), or the end of the latest dwell
ClockOffsets == {1, 51, 201}

\* a second choice of readings and instants: a rise of 3 degrees (49 to 52)
\* seen 800 and 1000 ms after a phase began, that is faster than and at
\* RAMPUP degrees a second
RampTemperatures == {49, 52, 150, 237}

RampOffsets == {1, 201, 1001}

\* a third choice of readings, for the runs that are followed for ever: a
\* cool oven, the three thresholds a profile goes through and one fault
SteadyTemperatures == {49, 150, 237}

\* how many hold phases a run sits out
MaxDwells == 3

\* how many hold phases a run with the second choice sits out
RampDwells == 2

\* how long before the 32 bit clock wraps the late run is taken up: the
\* clock then reads 2^32 - 59996, held as -59996, which is 2500 + 200 k, so
\* that the sensor timer is due as it is when setup() ends
LateBefore == 59996

NoOutput == [label |-> "", error |-> FALSE, value |-> 0]

VARIABLES
  now,              \* millis()
  epoch,            \* the clock at the end of setup() or of the latest dwell
  dwells,           \* the hold phases sat out so far
  scenario,         \* which readings and instants the environment offers
  pc,               \* position in loop()
  nextRead, nextDisplay, phaseStartTime, temp, phaseStartTemp, buzzerPeriod,
  reflowPhase, ovenStatus, debounceState, lastDebounceTime, buttonStatus,
  ssrPin,           \* level written to ssrPin
  buzzerPin,        \* level written to buzzerPin
  lcdOut,           \* what this pass printed on the LCD, NoOutput if nothing
  serialOut,        \* what this pass printed on Serial, NoOutput if nothing
  \* history of the current pass
  startPhase, startStatus, startButton,  \* values when the pass began
  readResult,       \* "none", "ok" or "fault": the sensor read of this pass
  switchPhase,      \* the phase the switch of this pass dispatched on
  switchTime,       \* phaseStartTime when the switch dispatched
  switchTemp,       \* phaseStartTemp when the switch dispatched
  raw,              \* the latest analogRead(buttonPin)
  \* history of the raw input
  pressStart,       \* clock at the first pressed sample of the current press
  held,             \* span of pressed samples of the current press, -1 if none
  released,         \* span of the press the latest sample ended, -1 if none
  visited,          \* debounce states entered since the last BUTTON_1
  \* history of the two timers
  reads,            \* how often the sensor timer has fired (line 213)
  displays          \* how often the display timer has fired (line 230)

ctrl == <<nextRead, nextDisplay, phaseStartTime, temp, phaseStartTemp,
          buzzerPeriod, reflowPhase, ovenStatus, debounceState,
          lastDebounceTime, buttonStatus, ssrPin, buzzerPin>>
outs == <<lcdOut, serialOut>>
passHist == <<startPhase, startStatus, startButton, readResult, switchPhase,
              switchTime, switchTemp>>
rawHist == <<raw, pressStart, held, released, visited>>
timerHist == <<reads, displays>>
clock == <<now, epoch, dwells, scenario>>
vars == <<clock, pc, ctrl, outs, passHist, rawHist, timerHist>>

\* globals are zero-initialised; setup() (lines 171-204) writes the pins LOW
\* and sets nextRead and nextDisplay to millis()
Init ==
  /\ now = SETUP_DELAY
  /\ epoch = SETUP_DELAY
  /\ dwells = 0
  /\ scenario = "profile"
  /\ pc = "read"
  /\ nextRead = SETUP_DELAY
  /\ nextDisplay = SETUP_DELAY
  /\ phaseStartTime = 0
  /\ temp = 0
  /\ phaseStartTemp = 0
  /\ buzzerPeriod = 0
  /\ reflowPhase = "REFLOW_PHASE_IDLE"
  /\ ovenStatus = "OVEN_OFF"
  /\ debounceState = "DEBOUNCE_STATE_IDLE"
  /\ lastDebounceTime = 0
  /\ buttonStatus = "BUTTON_NONE"
  /\ ssrPin = "LOW"
  /\ buzzerPin = "LOW"
  /\ lcdOut = NoOutput
  /\ serialOut = NoOutput
  /\ startPhase = "REFLOW_PHASE_IDLE"
  /\ startStatus = "OVEN_OFF"
  /\ startButton = "BUTTON_NONE"
  /\ readResult = "none"
  /\ switchPhase = "REFLOW_PHASE_IDLE"
  /\ switchTime = 0
  /\ switchTemp = 0
  /\ raw = 1023
  /\ pressStart = 0
  /\ held = -1
  /\ released = -1
  /\ visited = {"DEBOUNCE_STATE_IDLE"}
  /\ reads = 0
  /\ displays = 0

\* what millis() may return when a pass begins: the clock has not moved, or
\* it has moved on to one of the instants
Offsets == IF scenario = "ramp" THEN RampOffsets ELSE ClockOffsets

Millis == {now} \cup {epoch + o : o \in {d \in Offsets : (epoch + d) - now > 0}}

\* what thermocouple.readThermocouple(CELSIUS) may return (line 215)
Sensor ==
  CASE scenario = "ramp" -> RampTemperatures \cup {FAULT_OPEN}
    [] scenario = "steady" -> SteadyTemperatures \cup {FAULT_OPEN}
    [] OTHER -> Readings

\* lines 210-222: the sensor timer, the read and the first assignment of
\* the fault override
ReadSensor ==
  /\ pc = "read"
  /\ now' \in Millis
  /\ startPhase' = reflowPhase
  /\ startStatus' = ovenStatus
  /\ startButton' = buttonStatus
  /\ lcdOut' = NoOutput
  /\ serialOut' = NoOutput
  /\ IF ULongGT(now', nextRead)
       THEN /\ nextRead' = nextRead + READ_INTERVAL_TIME
            /\ reads' = reads + 1
            /\ \E r \in Sensor :
                 /\ temp' = r
                 /\ IF IsFault(r)
                      THEN /\ reflowPhase' = "REFLOW_PHASE_ERROR"
                           /\ readResult' = "fault"
                           /\ pc' = "fault"
                      ELSE /\ reflowPhase' = reflowPhase
                           /\ readResult' = "ok"
                           /\ pc' = "display"
       ELSE /\ UNCHANGED <<nextRead, reads, temp, reflowPhase>>
            /\ readResult' = "none"
            /\ pc' = "display"
  /\ UNCHANGED <<epoch, dwells, scenario, nextDisplay, phaseStartTime,
                 phaseStartTemp, buzzerPeriod, ovenStatus, debounceState,
                 lastDebounceTime, buttonStatus, ssrPin, buzzerPin, switchPhase,
                 switchTime, switchTemp, rawHist, displays>>

\* the fault override without line 223
FaultOverrideKeepsStatus ==
  /\ pc = "fault"
  /\ pc' = "display"
  /\ UNCHANGED <<clock, ctrl, outs, passHist, rawHist, timerHist>>

\* line 223: the second assignment of the fault override
FaultOverride ==
  /\ pc = "fault"
  /\ ovenStatus' = "OVEN_OFF"
  /\ pc' = "display"
  /\ UNCHANGED <<clock, nextRead, nextDisplay, phaseStartTime, temp,
                 phaseStartTemp, buzzerPeriod, reflowPhase, debounceState,
                 lastDebounceTime, buttonStatus, ssrPin, buzzerPin, outs,
                 passHist, rawHist, timerHist>>

\* the display timer set to the clock plus its period when it fires
DisplayResetsTimer ==
  /\ pc = "display"
  /\ IF ULongGT(now, nextDisplay)
       THEN /\ nextDisplay' = now + DISPLAY_INTERVAL_TIME
            /\ displays' = displays + 1
            /\ serialOut' = IF ovenStatus = "OVEN_ON"
                              THEN [label |-> "", error |-> FALSE, value |-> temp]
                              ELSE serialOut
            /\ lcdOut' = IF reflowPhase = "REFLOW_PHASE_ERROR"
                           THEN [label |-> reflowPhase, error |-> TRUE, value |-> 0]
                           ELSE [label |-> reflowPhase, error |-> FALSE,
                                 value |-> temp]
       ELSE UNCHANGED <<nextDisplay, displays, serialOut, lcdOut>>
  /\ pc' = "status"
  /\ UNCHANGED <<clock, nextRead, phaseStartTime, temp, phaseStartTemp,
                 buzzerPeriod, reflowPhase, ovenStatus, debounceState,
                 lastDebounceTime, buttonStatus, ssrPin, buzzerPin, passHist,
                 rawHist, reads>>

\* the LCD printing temp in every phase, Error included
DisplayPrintsTempInError ==
  /\ pc = "display"
  /\ IF ULongGT(now, nextDisplay)
       THEN /\ nextDisplay' = nextDisplay + DISPLAY_INTERVAL_TIME
            /\ displays' = displays + 1
            /\ serialOut' = IF ovenStatus = "OVEN_ON"
                              THEN [label |-> "", error |-> FALSE, value |-> temp]
                              ELSE serialOut
            /\ lcdOut' = [label |-> reflowPhase, error |-> FALSE,
                          value |-> temp]
       ELSE UNCHANGED <<nextDisplay, displays, serialOut, lcdOut>>
  /\ pc' = "status"
  /\ UNCHANGED <<clock, nextRead, phaseStartTime, temp, phaseStartTemp,
                 buzzerPeriod, reflowPhase, ovenStatus, debounceState,
                 lastDebounceTime, buttonStatus, ssrPin, buzzerPin, passHist,
                 rawHist, reads>>

\* lines 227-264: the display timer, the serial log and the LCD
Display ==
  /\ pc = "display"
  /\ IF ULongGT(now, nextDisplay)
       THEN /\ nextDisplay' = nextDisplay + DISPLAY_INTERVAL_TIME
            /\ displays' = displays + 1
            /\ serialOut' = IF ovenStatus = "OVEN_ON"
                              THEN [label |-> "", error |-> FALSE, value |-> temp]
                              ELSE serialOut
            /\ lcdOut' = IF reflowPhase = "REFLOW_PHASE_ERROR"
                           THEN [label |-> reflowPhase, error |-> TRUE, value |-> 0]
                           ELSE [label |-> reflowPhase, error |-> FALSE,
                                 value |-> temp]
       ELSE UNCHANGED <<nextDisplay, displays, serialOut, lcdOut>>
  /\ pc' = "status"
  /\ UNCHANGED <<clock, nextRead, phaseStartTime, temp, phaseStartTemp,
                 buzzerPeriod, reflowPhase, ovenStatus, debounceState,
                 lastDebounceTime, buttonStatus, ssrPin, buzzerPin, passHist,
                 rawHist, reads>>

\* the switch with OVEN_ON set by the Preheat case alone
CaseStatusPreheatOnly(phase) ==
  IF phase = "REFLOW_PHASE_PREHEAT" THEN "OVEN_ON" ELSE "OVEN_OFF"

\* the first statement of the case the switch of line 267 dispatches to
\* (lines 270, 290, 314, 336, 360, 383, 397, 408, 418)
CaseStatus(phase) ==
  IF phase \in HeatingPhases THEN "OVEN_ON" ELSE "OVEN_OFF"

PhaseStatus ==
  /\ pc = "status"
  /\ switchPhase' = reflowPhase
  /\ switchTime' = phaseStartTime
  /\ switchTemp' = phaseStartTemp
  /\ ovenStatus' = CaseStatus(reflowPhase)
  /\ pc' = "table"
  /\ UNCHANGED <<clock, nextRead, nextDisplay, phaseStartTime, temp,
                 phaseStartTemp, buzzerPeriod, reflowPhase, debounceState,
                 lastDebounceTime, buttonStatus, ssrPin, buzzerPin, outs,
                 startPhase, startStatus, startButton, readResult, rawHist,
                 timerHist>>

\* the ramp rule with <= for <
RampBelowOrAt == (temp - phaseStartTemp) * 1000 <= (now - phaseStartTime) * RAMPUP

\* lines 301 and 347: (temp - phaseStartTemp) <
\*   ((float)(millis() - phaseStartTime) * RAMPUP / 1000.0)
\* over the integers: both sides times 1000.  The readings are multiples of
\* a quarter degree and the float product and quotient are exact or off by
\* less than the 1/1000 degree that separates the two sides when they differ,
\* for every elapsed time up to 2^24 / 3 ms; beyond it the right side is
\* above any reading, as it is when the elapsed time is 2^31 ms or more (a
\* negative pattern)
RampBelow ==
  LET elapsed == ULongMinus(now, phaseStartTime)
  IN  IF elapsed < 0
        THEN TRUE
        ELSE (temp - phaseStartTemp) * 1000 < elapsed * RAMPUP

Level(on) == IF on THEN "HIGH" ELSE "LOW"

\* phaseStartTime = millis(); phaseStartTemp = temp; (lines 283-284, 295-296,
\* 318-319, 341-342, 365-366)
CapturePhaseStart ==
  /\ phaseStartTime' = now
  /\ phaseStartTemp' = temp

\* the Idle case with temp > ROOM_TEMPERATURE for temp >= ROOM_TEMPERATURE
CaseIdleStartsAtRoom ==
  /\ IF temp > ROOM_TEMPERATURE
       THEN /\ reflowPhase' = "REFLOW_PHASE_TOO_HOT"
            /\ UNCHANGED <<phaseStartTime, phaseStartTemp, serialOut>>
       ELSE IF buttonStatus = "BUTTON_1"
              THEN /\ serialOut' = [label |-> "temp", error |-> FALSE, value |-> 0]
                   /\ reflowPhase' = "REFLOW_PHASE_PREHEAT"
                   /\ CapturePhaseStart
              ELSE UNCHANGED <<reflowPhase, phaseStartTime, phaseStartTemp,
                               serialOut>>
  /\ pc' = "cancel"
  /\ UNCHANGED <<ovenStatus, ssrPin, buzzerPin, buzzerPeriod>>

\* lines 271-286
CaseIdle ==
  /\ IF temp >= ROOM_TEMPERATURE
       THEN /\ reflowPhase' = "REFLOW_PHASE_TOO_HOT"
            /\ UNCHANGED <<phaseStartTime, phaseStartTemp, serialOut>>
       ELSE IF buttonStatus = "BUTTON_1"
              THEN /\ serialOut' = [label |-> "temp", error |-> FALSE, value |-> 0]
                   /\ reflowPhase' = "REFLOW_PHASE_PREHEAT"
                   /\ CapturePhaseStart
              ELSE UNCHANGED <<reflowPhase, phaseStartTime, phaseStartTemp,
                               serialOut>>
  /\ pc' = "cancel"
  /\ UNCHANGED <<ovenStatus, ssrPin, buzzerPin, buzzerPeriod>>

\* lines 291-310
CasePreheat ==
  /\ IF temp >= SOAK_TEMPERATURE
       THEN /\ CapturePhaseStart
            /\ reflowPhase' = "REFLOW_PHASE_SOAK"
            /\ UNCHANGED ssrPin
       ELSE /\ ssrPin' = Level(RampBelow)
            /\ UNCHANGED <<reflowPhase, phaseStartTime, phaseStartTemp>>
  /\ pc' = "cancel"
  /\ UNCHANGED <<ovenStatus, buzzerPin, buzzerPeriod, serialOut>>

\* the Soak case heating up to and including SOAK_TEMPERATURE
CaseSoakHeatsAtThreshold ==
  /\ IF ULongGT(now, phaseStartTime + SOAK_PERIOD)
       THEN /\ CapturePhaseStart
            /\ reflowPhase' = "REFLOW_PHASE_REFLOW"
            /\ UNCHANGED ssrPin
       ELSE /\ ssrPin' = Level(temp <= SOAK_TEMPERATURE)
            /\ UNCHANGED <<reflowPhase, phaseStartTime, phaseStartTemp>>
  /\ pc' = "cancel"
  /\ UNCHANGED <<ovenStatus, buzzerPin, buzzerPeriod, serialOut>>

\* lines 315-332
CaseSoak ==
  /\ IF ULongGT(now, phaseStartTime + SOAK_PERIOD)
       THEN /\ CapturePhaseStart
            /\ reflowPhase' = "REFLOW_PHASE_REFLOW"
            /\ UNCHANGED ssrPin
       ELSE /\ ssrPin' = Level(temp < SOAK_TEMPERATURE)
            /\ UNCHANGED <<reflowPhase, phaseStartTime, phaseStartTemp>>
  /\ pc' = "cancel"
  /\ UNCHANGED <<ovenStatus, buzzerPin, buzzerPeriod, serialOut>>

\* lines 337-356
CaseReflow ==
  /\ IF temp >= PEAK_TEMPERATURE
       THEN /\ CapturePhaseStart
            /\ reflowPhase' = "REFLOW_PHASE_PEAK"
            /\ UNCHANGED ssrPin
       ELSE /\ ssrPin' = Level(RampBelow)
            /\ UNCHANGED <<reflowPhase, phaseStartTime, phaseStartTemp>>
  /\ pc' = "cancel"
  /\ UNCHANGED <<ovenStatus, buzzerPin, buzzerPeriod, serialOut>>

\* the Peak case without line 364 on the timeout
CasePeakTimeoutKeepsStatus ==
  /\ IF ULongGT(now, phaseStartTime + PEAK_PERIOD)
       THEN /\ ssrPin' = "LOW"
            /\ CapturePhaseStart
            /\ pc' = "peakCool"
            /\ UNCHANGED ovenStatus
       ELSE /\ ssrPin' = Level(temp < PEAK_TEMPERATURE)
            /\ pc' = "cancel"
            /\ UNCHANGED <<ovenStatus, phaseStartTime, phaseStartTemp>>
  /\ UNCHANGED <<reflowPhase, buzzerPin, buzzerPeriod, serialOut>>

\* lines 361-379; on the timeout the case goes on at line 367
CasePeak ==
  /\ IF ULongGT(now, phaseStartTime + PEAK_PERIOD)
       THEN /\ ssrPin' = "LOW"
            /\ ovenStatus' = "OVEN_OFF"
            /\ CapturePhaseStart
            /\ pc' = "peakCool"
       ELSE /\ ssrPin' = Level(temp < PEAK_TEMPERATURE)
            /\ pc' = "cancel"
            /\ UNCHANGED <<ovenStatus, phaseStartTime, phaseStartTemp>>
  /\ UNCHANGED <<reflowPhase, buzzerPin, buzzerPeriod, serialOut>>

\* lines 384-393
CaseCool ==
  /\ IF temp <= COOL_TEMPERATURE
       THEN /\ buzzerPeriod' = now + BUZZER_TIME
            /\ buzzerPin' = "HIGH"
            /\ reflowPhase' = "REFLOW_PHASE_COMPLETE"
       ELSE UNCHANGED <<buzzerPeriod, buzzerPin, reflowPhase>>
  /\ pc' = "cancel"
  /\ UNCHANGED <<ovenStatus, ssrPin, phaseStartTime, phaseStartTemp, serialOut>>

\* lines 398-404
CaseComplete ==
  /\ IF ULongGT(now, buzzerPeriod)
       THEN /\ buzzerPin' = "LOW"
            /\ reflowPhase' = "REFLOW_PHASE_IDLE"
       ELSE UNCHANGED <<buzzerPin, reflowPhase>>
  /\ pc' = "cancel"
  /\ UNCHANGED <<ovenStatus, ssrPin, phaseStartTime, phaseStartTemp,
                 buzzerPeriod, serialOut>>

\* lines 410-414
CaseTooHot ==
  /\ reflowPhase' = IF temp < ROOM_TEMPERATURE THEN "REFLOW_PHASE_IDLE"
                                               ELSE reflowPhase
  /\ pc' = "cancel"
  /\ UNCHANGED <<ovenStatus, ssrPin, buzzerPin, phaseStartTime, phaseStartTemp,
                 buzzerPeriod, serialOut>>

\* the Error case leaving Error whatever temp holds
CaseErrorAlwaysClears ==
  /\ reflowPhase' = "REFLOW_PHASE_IDLE"
  /\ pc' = "cancel"
  /\ UNCHANGED <<ovenStatus, ssrPin, buzzerPin, phaseStartTime, phaseStartTemp,
                 buzzerPeriod, serialOut>>

\* the Error case leaving Error for TooHot when the oven is hot
CaseErrorToTooHot ==
  /\ reflowPhase' = IF IsFault(temp) THEN "REFLOW_PHASE_ERROR"
                     ELSE IF temp >= ROOM_TEMPERATURE THEN "REFLOW_PHASE_TOO_HOT"
                     ELSE "REFLOW_PHASE_IDLE"
  /\ pc' = "cancel"
  /\ UNCHANGED <<ovenStatus, ssrPin, buzzerPin, phaseStartTime, phaseStartTemp,
                 buzzerPeriod, serialOut>>

\* lines 420-430
CaseError ==
  /\ reflowPhase' = IF IsFault(temp) THEN "REFLOW_PHASE_ERROR"
                                     ELSE "REFLOW_PHASE_IDLE"
  /\ pc' = "cancel"
  /\ UNCHANGED <<ovenStatus, ssrPin, buzzerPin, phaseStartTime, phaseStartTemp,
                 buzzerPeriod, serialOut>>

\* the rest of the case of the switch (lines 267-432)
PhaseTable ==
  /\ pc = "table"
  /\ CASE reflowPhase = "REFLOW_PHASE_IDLE" -> CaseIdle
       [] reflowPhase = "REFLOW_PHASE_PREHEAT" -> CasePreheat
       [] reflowPhase = "REFLOW_PHASE_SOAK" -> CaseSoak
       [] reflowPhase = "REFLOW_PHASE_REFLOW" -> CaseReflow
       [] reflowPhase = "REFLOW_PHASE_PEAK" -> CasePeak
       [] reflowPhase = "REFLOW_PHASE_COOL" -> CaseCool
       [] reflowPhase = "REFLOW_PHASE_COMPLETE" -> CaseComplete
       [] reflowPhase = "REFLOW_PHASE_TOO_HOT" -> CaseTooHot
       [] reflowPhase = "REFLOW_PHASE_ERROR" -> CaseError
  /\ UNCHANGED <<clock, nextRead, nextDisplay, temp, debounceState,
                 lastDebounceTime, buttonStatus, lcdOut, passHist, rawHist,
                 timerHist>>

\* line 367: the last assignment of the Peak timeout
PeakCool ==
  /\ pc = "peakCool"
  /\ reflowPhase' = "REFLOW_PHASE_COOL"
  /\ pc' = "cancel"
  /\ UNCHANGED <<clock, nextRead, nextDisplay, phaseStartTime, temp,
                 phaseStartTemp, buzzerPeriod, ovenStatus, debounceState,
                 lastDebounceTime, buttonStatus, ssrPin, buzzerPin, outs,
                 passHist, rawHist, timerHist>>

\* the cancel check without the test of line 438
CancelCheckAnyStatus ==
  /\ pc = "cancel"
  /\ IF buttonStatus = "BUTTON_1"
       THEN /\ ovenStatus' = "OVEN_OFF"
            /\ ssrPin' = "LOW"
            /\ pc' = "cancelPhase"
       ELSE /\ UNCHANGED <<ovenStatus, ssrPin>>
            /\ pc' = "debounce"
  /\ UNCHANGED <<clock, nextRead, nextDisplay, phaseStartTime, temp,
                 phaseStartTemp, buzzerPeriod, reflowPhase, debounceState,
                 lastDebounceTime, buttonStatus, buzzerPin, outs, passHist,
                 rawHist, timerHist>>

\* lines 435-443: the cancel check up to digitalWrite(ssrPin, LOW)
CancelCheck ==
  /\ pc = "cancel"
  /\ IF buttonStatus = "BUTTON_1" /\ ovenStatus = "OVEN_ON"
       THEN /\ ovenStatus' = "OVEN_OFF"
            /\ ssrPin' = "LOW"
            /\ pc' = "cancelPhase"
       ELSE /\ UNCHANGED <<ovenStatus, ssrPin>>
            /\ pc' = "debounce"
  /\ UNCHANGED <<clock, nextRead, nextDisplay, phaseStartTime, temp,
                 phaseStartTemp, buzzerPeriod, reflowPhase, debounceState,
                 lastDebounceTime, buttonStatus, buzzerPin, outs, passHist,
                 rawHist, timerHist>>

\* the cancel without line 445
CancelPhaseKeepsPhase ==
  /\ pc = "cancelPhase"
  /\ pc' = "debounce"
  /\ UNCHANGED <<clock, ctrl, outs, passHist, rawHist, timerHist>>

\* line 445: reinitialize the state machine
CancelPhase ==
  /\ pc = "cancelPhase"
  /\ reflowPhase' = "REFLOW_PHASE_IDLE"
  /\ pc' = "debounce"
  /\ UNCHANGED <<clock, nextRead, nextDisplay, phaseStartTime, temp,
                 phaseStartTemp, buzzerPeriod, ovenStatus, debounceState,
                 lastDebounceTime, buttonStatus, ssrPin, buzzerPin, outs,
                 passHist, rawHist, timerHist>>

\* the Idle case without line 454
DebounceIdleKeepsEvent(sample) ==
  /\ UNCHANGED buttonStatus
  /\ IF sample = 0
       THEN /\ lastDebounceTime' = now
            /\ debounceState' = "DEBOUNCE_STATE_CHECK"
       ELSE UNCHANGED <<lastDebounceTime, debounceState>>

\* lines 452-462
DebounceIdle(sample) ==
  /\ buttonStatus' = "BUTTON_NONE"
  /\ IF sample = 0
       THEN /\ lastDebounceTime' = now
            /\ debounceState' = "DEBOUNCE_STATE_CHECK"
       ELSE UNCHANGED <<lastDebounceTime, debounceState>>

\* the Check case with >= DEBOUNCE_PERIOD_MIN for > DEBOUNCE_PERIOD_MIN
DebounceCheckAtPeriod(sample) ==
  /\ debounceState' =
       IF sample = 0
         THEN IF ~ ULongGT(DEBOUNCE_PERIOD_MIN, now - lastDebounceTime)
                THEN "DEBOUNCE_STATE_RELEASE"
                ELSE debounceState
         ELSE "DEBOUNCE_STATE_IDLE"
  /\ UNCHANGED <<buttonStatus, lastDebounceTime>>

\* the Check case reporting the press as soon as it is confirmed
DebounceCheckFiresAtPress(sample) ==
  /\ IF sample = 0
       THEN IF ULongGT(now - lastDebounceTime, DEBOUNCE_PERIOD_MIN)
              THEN /\ buttonStatus' = "BUTTON_1"
                   /\ debounceState' = "DEBOUNCE_STATE_IDLE"
              ELSE UNCHANGED <<buttonStatus, debounceState>>
       ELSE /\ debounceState' = "DEBOUNCE_STATE_IDLE"
            /\ UNCHANGED buttonStatus
  /\ UNCHANGED lastDebounceTime

\* lines 465-480
DebounceCheck(sample) ==
  /\ debounceState' =
       IF sample = 0
         THEN IF ULongGT(now - lastDebounceTime, DEBOUNCE_PERIOD_MIN)
                THEN "DEBOUNCE_STATE_RELEASE"
                ELSE debounceState
         ELSE "DEBOUNCE_STATE_IDLE"
  /\ UNCHANGED <<buttonStatus, lastDebounceTime>>

\* lines 483-490
DebounceRelease(sample) ==
  /\ IF sample > 0
       THEN /\ buttonStatus' = "BUTTON_1"
            /\ debounceState' = "DEBOUNCE_STATE_IDLE"
       ELSE UNCHANGED <<buttonStatus, debounceState>>
  /\ UNCHANGED lastDebounceTime

\* the raw input as the samples show it: a press is a run of samples that
\* read 0; its span is the time from its first to its latest sample
Observe(sample) ==
  /\ raw' = sample
  /\ IF sample = 0
       THEN /\ pressStart' = IF raw = 0 THEN pressStart ELSE now
            /\ held' = IF raw = 0 THEN now - pressStart ELSE 0
            /\ released' = -1
       ELSE /\ pressStart' = 0
            /\ held' = -1
            /\ released' = held

\* lines 450-492: the debounce switch, with one analogRead(buttonPin)
Debounce ==
  /\ pc = "debounce"
  /\ \E sample \in RawInputs :
       /\ CASE debounceState = "DEBOUNCE_STATE_IDLE" -> DebounceIdle(sample)
            [] debounceState = "DEBOUNCE_STATE_CHECK" -> DebounceCheck(sample)
            [] debounceState = "DEBOUNCE_STATE_RELEASE" -> DebounceRelease(sample)
       /\ Observe(sample)
  /\ visited' = IF buttonStatus' = "BUTTON_1" /\ buttonStatus # "BUTTON_1"
                  THEN {debounceState'}
                  ELSE visited \cup {debounceState'}
  /\ pc' = "safety"
  /\ UNCHANGED <<clock, nextRead, nextDisplay, phaseStartTime, temp,
                 phaseStartTemp, buzzerPeriod, reflowPhase, ovenStatus, ssrPin,
                 buzzerPin, outs, passHist, timerHist>>

\* the end of the pass without lines 495-498
SafetySkipped ==
  /\ pc = "safety"
  /\ pc' = "read"
  /\ UNCHANGED <<clock, ctrl, outs, passHist, rawHist, timerHist>>

\* lines 495-498: make sure ssr is low
Safety ==
  /\ pc = "safety"
  /\ ssrPin' = IF ovenStatus = "OVEN_OFF" THEN "LOW" ELSE ssrPin
  /\ pc' = "read"
  /\ UNCHANGED <<clock, nextRead, nextDisplay, phaseStartTime, temp,
                 phaseStartTemp, buzzerPeriod, reflowPhase, ovenStatus,
                 debounceState, lastDebounceTime, buttonStatus, buzzerPin,
                 outs, passHist, rawHist, timerHist>>

\* how often a periodic timer (lines 210-213, 227-230) fires in passes at
\* every millisecond up to the clock value t: once each time the clock is
\* past it
Firings(next, period, t) ==
  IF ULongGT(t, next) THEN ((t - next) + period - 1) \div period ELSE 0

\* a periodic timer (lines 210-213, 227-230) after passes at every
\* millisecond up to the clock value t: it fires while the clock is past it
CaughtUp(next, period, t) ==
  IF ULongGT(t, next)
    THEN next + period * (((t - next) + period - 1) \div period)
    ELSE next

\* the instant at which the hold phase the controller is in runs out
\* (lines 316, 361, 398)
HoldDeadline ==
  CASE reflowPhase = "REFLOW_PHASE_SOAK" -> phaseStartTime + SOAK_PERIOD
    [] reflowPhase = "REFLOW_PHASE_PEAK" -> phaseStartTime + PEAK_PERIOD
    [] OTHER -> buzzerPeriod

\* a pass of loop() that begins here, reads the temperature it read before
\* and finds the button as it was (untouched, or still held down after the
\* debounce period) changes nothing but the two timers
Holding ==
  /\ pc = "read"
  /\ ~ IsFault(temp)
  /\ buttonStatus = "BUTTON_NONE"
  /\ \/ debounceState = "DEBOUNCE_STATE_IDLE" /\ raw > 0 /\ released = -1
     \/ debounceState = "DEBOUNCE_STATE_RELEASE" /\ raw = 0
  /\ \/ /\ reflowPhase = "REFLOW_PHASE_SOAK"
        /\ ovenStatus = "OVEN_ON"
        /\ ssrPin = Level(temp < SOAK_TEMPERATURE)
     \/ /\ reflowPhase = "REFLOW_PHASE_PEAK"
        /\ ovenStatus = "OVEN_ON"
        /\ ssrPin = Level(temp < PEAK_TEMPERATURE)
     \/ /\ reflowPhase = "REFLOW_PHASE_COMPLETE"
        /\ ovenStatus = "OVEN_OFF"
        /\ ssrPin = "LOW"

\* loop() run over and over (lines 207-500) while the controller sits out
\* Soak, Peak or Complete with a steady temperature and the button left as
\* it is, up to the instant the phase runs out: the passes in between fire
\* the two timers and change nothing else
Dwell ==
  /\ dwells < (IF scenario = "ramp" THEN RampDwells ELSE MaxDwells)
  /\ Holding
  /\ ~ ULongGT(now, nextRead)
  /\ ~ ULongGT(now, nextDisplay)
  /\ HoldDeadline - now > 0
  /\ ~ ULongGT(now, HoldDeadline)
  /\ now' = HoldDeadline
  /\ epoch' = HoldDeadline
  /\ dwells' = dwells + 1
  /\ nextRead' = CaughtUp(nextRead, READ_INTERVAL_TIME, HoldDeadline)
  /\ nextDisplay' = CaughtUp(nextDisplay, DISPLAY_INTERVAL_TIME, HoldDeadline)
  /\ reads' = reads + Firings(nextRead, READ_INTERVAL_TIME, HoldDeadline)
  /\ displays' = displays
                  + Firings(nextDisplay, DISPLAY_INTERVAL_TIME, HoldDeadline)
  /\ lcdOut' = NoOutput
  /\ serialOut' = NoOutput
  /\ startPhase' = reflowPhase
  /\ startStatus' = ovenStatus
  /\ startButton' = buttonStatus
  /\ readResult' = "none"
  /\ switchPhase' = reflowPhase
  /\ switchTime' = phaseStartTime
  /\ switchTemp' = phaseStartTemp
  /\ held' = IF raw = 0 THEN HoldDeadline - pressStart ELSE held
  /\ UNCHANGED <<scenario, pc, phaseStartTime, temp, phaseStartTemp,
                 buzzerPeriod, reflowPhase, ovenStatus, debounceState,
                 lastDebounceTime, buttonStatus, ssrPin, buzzerPin, raw,
                 pressStart, released, visited>>

Next ==
  \/ Dwell
  \/ ReadSensor
  \/ FaultOverride
  \/ Display
  \/ PhaseStatus
  \/ PhaseTable
  \/ PeakCool
  \/ CancelCheck
  \/ CancelPhase
  \/ Debounce
  \/ Safety

Spec == Init /\ [][Next]_vars

\* how often the two timers have fired when the late run is taken up:
\* 2500 + 200 * 21474524 = 2^32 - 59996, 2500 + 1000 * 4294905 = 2^32 - 59796
LateReads == 21474524
LateDisplays == 4294905

\* the controller as it stands after idling with a cool oven and the button
\* untouched until the clock reads 2^32 - LateBefore, that is 49.7 days
\* after power-up less LateBefore ms: the timers have kept firing (nextRead
\* is 2500 + 200 k, nextDisplay is 2500 + 1000 k, each the first such value
\* not below the clock), nothing else has changed since setup() but temp
InitLate ==
  /\ now = 0 - LateBefore
  /\ epoch = 0 - LateBefore
  /\ dwells = 0
  /\ scenario = "profile"
  /\ pc = "read"
  /\ nextRead = 0 - LateBefore
  /\ nextDisplay = 200 - LateBefore
  /\ phaseStartTime = 0
  /\ temp = ROOM_TEMPERATURE - 1
  /\ phaseStartTemp = 0
  /\ buzzerPeriod = 0
  /\ reflowPhase = "REFLOW_PHASE_IDLE"
  /\ ovenStatus = "OVEN_OFF"
  /\ debounceState = "DEBOUNCE_STATE_IDLE"
  /\ lastDebounceTime = 0
  /\ buttonStatus = "BUTTON_NONE"
  /\ ssrPin = "LOW"
  /\ buzzerPin = "LOW"
  /\ lcdOut = NoOutput
  /\ serialOut = NoOutput
  /\ startPhase = "REFLOW_PHASE_IDLE"
  /\ startStatus = "OVEN_OFF"
  /\ startButton = "BUTTON_NONE"
  /\ readResult = "none"
  /\ switchPhase = "REFLOW_PHASE_IDLE"
  /\ switchTime = 0
  /\ switchTemp = 0
  /\ raw = 1023
  /\ pressStart = 0
  /\ held = -1
  /\ released = -1
  /\ visited = {"DEBOUNCE_STATE_IDLE"}
  /\ reads = LateReads
  /\ displays = LateDisplays

SpecLate == InitLate /\ [][Next]_vars

\* setup() as in Init, in a run in which the environment offers the second
\* choice of readings and instants
InitRamp ==
  /\ now = SETUP_DELAY
  /\ epoch = SETUP_DELAY
  /\ dwells = 0
  /\ scenario = "ramp"
  /\ pc = "read"
  /\ nextRead = SETUP_DELAY
  /\ nextDisplay = SETUP_DELAY
  /\ phaseStartTime = 0
  /\ temp = 0
  /\ phaseStartTemp = 0
  /\ buzzerPeriod = 0
  /\ reflowPhase = "REFLOW_PHASE_IDLE"
  /\ ovenStatus = "OVEN_OFF"
  /\ debounceState = "DEBOUNCE_STATE_IDLE"
  /\ lastDebounceTime = 0
  /\ buttonStatus = "BUTTON_NONE"
  /\ ssrPin = "LOW"
  /\ buzzerPin = "LOW"
  /\ lcdOut = NoOutput
  /\ serialOut = NoOutput
  /\ startPhase = "REFLOW_PHASE_IDLE"
  /\ startStatus = "OVEN_OFF"
  /\ startButton = "BUTTON_NONE"
  /\ readResult = "none"
  /\ switchPhase = "REFLOW_PHASE_IDLE"
  /\ switchTime = 0
  /\ switchTemp = 0
  /\ raw = 1023
  /\ pressStart = 0
  /\ held = -1
  /\ released = -1
  /\ visited = {"DEBOUNCE_STATE_IDLE"}
  /\ reads = 0
  /\ displays = 0

SpecRamp == InitRamp /\ [][Next]_vars

\* the sensor timer fires 125 * 2^31 / 200 = 5 * 2^28 times in 125 * 2^31 ms
\* and the display timer 125 * 2^31 / 1000 = 2^28 times; 200 * reads and
\* 1000 * displays are 32 bit patterns of period 2^29 in reads and displays
StrideFirings == 2^28
FiringsPeriod == 2^29

\* a pass of loop() that begins here in Preheat or in Reflow, reads the
\* temperature it read before, below the threshold that ends the phase, and
\* finds the button untouched, changes nothing but the two timers and the
\* heater (lines 289-311, 335-357)
Steady ==
  /\ pc = "read"
  /\ ~ IsFault(temp)
  /\ buttonStatus = "BUTTON_NONE"
  /\ debounceState = "DEBOUNCE_STATE_IDLE"
  /\ raw > 0
  /\ released = -1
  /\ ovenStatus = "OVEN_ON"
  /\ switchPhase = reflowPhase
  /\ \/ reflowPhase = "REFLOW_PHASE_PREHEAT" /\ temp < SOAK_TEMPERATURE
     \/ reflowPhase = "REFLOW_PHASE_REFLOW" /\ temp < PEAK_TEMPERATURE

\* loop() run over and over (lines 207-500) for 125 * 2^31 ms, about eight
\* and a half years, while the controller is in Preheat or in Reflow with a
\* steady temperature below the threshold and the button untouched.  No
\* statement of the two cases looks at the clock but the ramp rule, so the
\* phase stays; 125 * 2^31 is a multiple of both timer periods and is 2^31
\* modulo 2^32, so the clock and the two timers end 2^31 further on as 32
\* bit patterns, and the last pass writes the heater by the ramp rule
SteadyStride ==
  /\ Steady
  /\ ~ ULongGT(now, nextRead)
  /\ ~ ULongGT(now, nextDisplay)
  /\ now' = HalfWrap(now)
  /\ epoch' = HalfWrap(epoch)
  /\ nextRead' = HalfWrap(nextRead)
  /\ nextDisplay' = HalfWrap(nextDisplay)
  /\ reads' = (reads + 5 * StrideFirings) % FiringsPeriod
  /\ displays' = (displays + StrideFirings) % FiringsPeriod
  /\ UNCHANGED <<phaseStartTime, temp, phaseStartTemp>>
  /\ ssrPin' = Level(RampBelow')
  /\ lcdOut' = NoOutput
  /\ serialOut' = NoOutput
  /\ startPhase' = reflowPhase
  /\ startStatus' = ovenStatus
  /\ startButton' = buttonStatus
  /\ readResult' = "none"
  /\ switchPhase' = reflowPhase
  /\ switchTime' = phaseStartTime
  /\ switchTemp' = phaseStartTemp
  /\ UNCHANGED <<dwells, scenario, pc, buzzerPeriod, reflowPhase, ovenStatus,
                 debounceState, lastDebounceTime, buttonStatus, buzzerPin,
                 rawHist>>

\* the clock moves on past the instants of the epoch
ClockAdvance == Dwell \/ SteadyStride

NextSteady ==
  \/ Next
  \/ SteadyStride

\* setup() as in Init, in a run in which the environment offers the third
\* choice of readings
InitSteady ==
  /\ now = SETUP_DELAY
  /\ epoch = SETUP_DELAY
  /\ dwells = 0
  /\ scenario = "steady"
  /\ pc = "read"
  /\ nextRead = SETUP_DELAY
  /\ nextDisplay = SETUP_DELAY
  /\ phaseStartTime = 0
  /\ temp = 0
  /\ phaseStartTemp = 0
  /\ buzzerPeriod = 0
  /\ reflowPhase = "REFLOW_PHASE_IDLE"
  /\ ovenStatus = "OVEN_OFF"
  /\ debounceState = "DEBOUNCE_STATE_IDLE"
  /\ lastDebounceTime = 0
  /\ buttonStatus = "BUTTON_NONE"
  /\ ssrPin = "LOW"
  /\ buzzerPin = "LOW"
  /\ lcdOut = NoOutput
  /\ serialOut = NoOutput
  /\ startPhase = "REFLOW_PHASE_IDLE"
  /\ startStatus = "OVEN_OFF"
  /\ startButton = "BUTTON_NONE"
  /\ readResult = "none"
  /\ switchPhase = "REFLOW_PHASE_IDLE"
  /\ switchTime = 0
  /\ switchTemp = 0
  /\ raw = 1023
  /\ pressStart = 0
  /\ held = -1
  /\ released = -1
  /\ visited = {"DEBOUNCE_STATE_IDLE"}
  /\ reads = 0
  /\ displays = 0


\* loop() is called again whenever it returns (the Arduino core's main):
\* a run never stops while a step of loop() is possible
SpecSteady == InitSteady /\ [][NextSteady]_vars /\ WF_vars(NextSteady)

(***************************************************************************)
(* The claims.  A pass of loop() has ended when pc = "read"; startPhase,   *)
(* startStatus, startButton, readResult and switchPhase then tell how the  *)
(* pass that ended went.                                                   *)
(***************************************************************************)
PassEnd == pc = "read"

\* C1: at the end of every pass of loop(), if ovenStatus is OVEN_OFF then
\* the heater output is LOW.
HeaterLowWhenOvenOff ==
  PassEnd /\ ovenStatus = "OVEN_OFF" => ssrPin = "LOW"

\* C1 witness: a pass that began with the oven on read a fault and ended
\* with the oven off.
HeaterLowWhenOvenOffWitness ==
  /\ PassEnd
  /\ startStatus = "OVEN_ON"
  /\ startPhase = "REFLOW_PHASE_SOAK"
  /\ readResult = "fault"
  /\ ovenStatus = "OVEN_OFF"
  /\ ssrPin = "LOW"

OnInOffPhase == ovenStatus = "OVEN_ON" /\ reflowPhase \in OffPhases

\* C2 as stated: at every point between two statements of loop() that
\* assign reflowPhase or ovenStatus, ovenStatus is never OVEN_ON while
\* reflowPhase is Idle, Cool, Complete, TooHot or Error.
NeverOnInOffPhase == ~ OnInOffPhase

\* C2 amended: the same at every point but the one between the two
\* assignments of the fault override (lines 222 and 223), where reflowPhase
\* is already Error and ovenStatus may still be OVEN_ON.
NeverOnInOffPhaseButInOverride == pc # "fault" => ~ OnInOffPhase

\* C2 witness: the fault override has run to its end in a pass that began
\* with the oven on.
NeverOnInOffPhaseWitness ==
  /\ pc = "display"
  /\ readResult = "fault"
  /\ startStatus = "OVEN_ON"
  /\ reflowPhase = "REFLOW_PHASE_ERROR"
  /\ ovenStatus = "OVEN_OFF"

\* C3 as stated: at the end of every pass, whenever reflowPhase is Preheat,
\* Soak, Reflow or Peak, ovenStatus is OVEN_ON, the pass in which Idle
\* goes to Preheat included.
OnInHeatingPhase ==
  PassEnd /\ reflowPhase \in HeatingPhases => ovenStatus = "OVEN_ON"

\* C3 amended: at the end of every pass whose switch dispatched on Preheat,
\* Soak, Reflow or Peak and left the phase one of them, ovenStatus is
\* OVEN_ON; the only other pass that ends in one of them is the one in which
\* Idle goes to Preheat, and it ends with ovenStatus OVEN_OFF and the heater
\* LOW: ovenStatus lags the phase by one pass there.
OnInHeatingPhaseAfterEntry ==
  PassEnd /\ reflowPhase \in HeatingPhases =>
    IF switchPhase \in HeatingPhases
      THEN ovenStatus = "OVEN_ON"
      ELSE /\ switchPhase = "REFLOW_PHASE_IDLE"
           /\ reflowPhase = "REFLOW_PHASE_PREHEAT"
           /\ ovenStatus = "OVEN_OFF"
           /\ ssrPin = "LOW"

\* C3 witness: a pass has ended in Soak with the oven on.
OnInHeatingPhaseWitness ==
  /\ PassEnd
  /\ switchPhase = "REFLOW_PHASE_PREHEAT"
  /\ reflowPhase = "REFLOW_PHASE_SOAK"
  /\ ovenStatus = "OVEN_ON"

\* C4: if the sensor read of a pass returns a fault code, the pass ends with
\* reflowPhase Error, ovenStatus OVEN_OFF and the heater LOW, whatever the
\* phase, the temperature, the timers and the pending press.
FaultForcesError ==
  PassEnd /\ readResult = "fault" =>
    /\ reflowPhase = "REFLOW_PHASE_ERROR"
    /\ ovenStatus = "OVEN_OFF"
    /\ ssrPin = "LOW"

\* C4 witness: a fault was read in a pass that began in Peak with the oven
\* on and a press pending.
FaultForcesErrorWitness ==
  /\ PassEnd
  /\ readResult = "fault"
  /\ startPhase = "REFLOW_PHASE_PEAK"
  /\ startStatus = "OVEN_ON"
  /\ startButton = "BUTTON_1"
  /\ reflowPhase = "REFLOW_PHASE_ERROR"

\* C5: a pass that begins in Error and reads a fault-free temperature ends
\* in Idle, never in another phase, with the heater LOW.
ErrorClearsToIdle ==
  PassEnd /\ startPhase = "REFLOW_PHASE_ERROR" /\ readResult = "ok" =>
    /\ reflowPhase = "REFLOW_PHASE_IDLE"
    /\ ovenStatus = "OVEN_OFF"
    /\ ssrPin = "LOW"

\* C5 witness: Error was left for Idle on one fault-free read of a hot oven.
ErrorClearsToIdleWitness ==
  /\ PassEnd
  /\ startPhase = "REFLOW_PHASE_ERROR"
  /\ readResult = "ok"
  /\ temp = PEAK_TEMPERATURE
  /\ reflowPhase = "REFLOW_PHASE_IDLE"

\* a pass began in a heating phase with the oven on and a press pending,
\* read no fault, and has ended
CancelPass ==
  /\ PassEnd
  /\ startPhase \in HeatingPhases
  /\ startStatus = "OVEN_ON"
  /\ startButton = "BUTTON_1"
  /\ readResult # "fault"

\* C6 as stated: such a pass ends with reflowPhase Idle, ovenStatus OVEN_OFF
\* and the heater LOW, whatever the phase table would do in that pass.
CancelForcesIdle ==
  CancelPass =>
    /\ reflowPhase = "REFLOW_PHASE_IDLE"
    /\ ovenStatus = "OVEN_OFF"
    /\ ssrPin = "LOW"

\* C6 amended: such a pass ends with ovenStatus OVEN_OFF and the heater LOW,
\* and with reflowPhase Idle unless it began in Peak and the phase table,
\* which runs before the cancel check, took the Peak timeout: then the phase
\* is Cool.
CancelForcesOff ==
  CancelPass =>
    /\ ovenStatus = "OVEN_OFF"
    /\ ssrPin = "LOW"
    /\ \/ reflowPhase = "REFLOW_PHASE_IDLE"
       \/ /\ startPhase = "REFLOW_PHASE_PEAK"
          /\ reflowPhase = "REFLOW_PHASE_COOL"
          /\ phaseStartTime = now

\* C6 witness: a press has cancelled Reflow in the pass in which the phase
\* table moved on to Peak.
CancelForcesOffWitness ==
  /\ CancelPass
  /\ startPhase = "REFLOW_PHASE_REFLOW"
  /\ temp = PEAK_TEMPERATURE
  /\ reflowPhase = "REFLOW_PHASE_IDLE"

\* the phase table is about to run in Idle on a cool oven with a press pending
StartGateOpen ==
  /\ pc = "table"
  /\ reflowPhase = "REFLOW_PHASE_IDLE"
  /\ temp < ROOM_TEMPERATURE
  /\ buttonStatus = "BUTTON_1"

\* C7: reflowPhase changes to Preheat exactly in the step of the phase table
\* taken in Idle with temp < ROOM_TEMPERATURE and a press pending, and that
\* step sets phaseStartTemp to temp and phaseStartTime to the clock; a press
\* in Idle with temp >= ROOM_TEMPERATURE goes to TooHot and is gone when
\* the pass ends.
StartGate ==
  /\ [][ /\ (reflowPhase' = "REFLOW_PHASE_PREHEAT"
               /\ reflowPhase # "REFLOW_PHASE_PREHEAT") <=> StartGateOpen
         /\ StartGateOpen => phaseStartTemp' = temp /\ phaseStartTime' = now
         /\ ( /\ pc = "table"
              /\ reflowPhase = "REFLOW_PHASE_IDLE"
              /\ buttonStatus = "BUTTON_1"
              /\ temp >= ROOM_TEMPERATURE )
            => reflowPhase' = "REFLOW_PHASE_TOO_HOT" ]_vars
  /\ [](PassEnd /\ switchPhase = "REFLOW_PHASE_IDLE"
          /\ startButton = "BUTTON_1" /\ temp >= ROOM_TEMPERATURE
        => reflowPhase = "REFLOW_PHASE_TOO_HOT" /\ buttonStatus = "BUTTON_NONE")

\* C7 witness: the phase table has just started a run from Idle at 49
\* degrees.
StartGateWitness ==
  /\ pc = "cancel"
  /\ switchPhase = "REFLOW_PHASE_IDLE"
  /\ reflowPhase = "REFLOW_PHASE_PREHEAT"
  /\ buttonStatus = "BUTTON_1"
  /\ temp = ROOM_TEMPERATURE - 1
  /\ phaseStartTemp = temp
  /\ phaseStartTime = now
  /\ now > SETUP_DELAY

\* C8 as stated: a press sampled pressed for less than 50 ms and then
\* released never gives BUTTON_1; a press sampled pressed for 50 ms or
\* longer, exactly 50 ms included, and then released gives BUTTON_1.
DebounceAtFifty ==
  /\ (released >= 0 /\ released < DEBOUNCE_PERIOD_MIN
        => buttonStatus # "BUTTON_1")
  /\ (released >= DEBOUNCE_PERIOD_MIN => buttonStatus = "BUTTON_1")

\* C8 amended: buttonStatus is BUTTON_1 exactly from the pass that samples
\* the release of a press whose pressed samples span more than 50 ms to the
\* next sample: a press that spans 50 ms or less gives no event, a longer
\* one gives exactly one.
DebounceAboveFifty ==
  buttonStatus = "BUTTON_1" <=> released > DEBOUNCE_PERIOD_MIN

\* C8 witness: a press that spanned 51 ms has been released and reported.
DebounceAboveFiftyWitness ==
  /\ released = DEBOUNCE_PERIOD_MIN + 1
  /\ buttonStatus = "BUTTON_1"
  /\ raw > 0

\* C9: buttonStatus becomes BUTTON_1 only in a debounce step taken in
\* DEBOUNCE_STATE_RELEASE that samples the input released, and only after
\* the debounce machine has been through Idle, Check and Release since the
\* event before; while the latest sample reads pressed there is no event.
EventAtRelease ==
  /\ [][ buttonStatus' = "BUTTON_1" /\ buttonStatus # "BUTTON_1" =>
           /\ pc = "debounce"
           /\ debounceState = "DEBOUNCE_STATE_RELEASE"
           /\ raw' > 0
           /\ visited = DebounceState ]_vars
  /\ [](raw = 0 => buttonStatus # "BUTTON_1")

\* C9 witness: a button held down through a whole hold phase has been
\* released and reported, and the debounce machine is back in Idle.
EventAtReleaseWitness ==
  /\ buttonStatus = "BUTTON_1"
  /\ released >= PEAK_PERIOD
  /\ raw > 0
  /\ visited = {"DEBOUNCE_STATE_IDLE"}
  /\ debounceState = "DEBOUNCE_STATE_IDLE"

\* C10: a press event lives for one pass: a pass that begins with BUTTON_1
\* shows it to the phase table and to the cancel check and ends with
\* BUTTON_NONE, and BUTTON_1 is only ever held in DEBOUNCE_STATE_IDLE; so
\* the pass that starts a run and the pass that cancels one both end with
\* the event gone.
EventLivesOnePass ==
  /\ (PassEnd /\ startButton = "BUTTON_1" => buttonStatus = "BUTTON_NONE")
  /\ (buttonStatus = "BUTTON_1" => debounceState = "DEBOUNCE_STATE_IDLE")
  /\ (pc \notin {"read", "safety"} => buttonStatus = startButton)

\* C10 witness: the pass in which a press started a run has ended.
EventLivesOnePassWitness ==
  /\ PassEnd
  /\ startButton = "BUTTON_1"
  /\ switchPhase = "REFLOW_PHASE_IDLE"
  /\ reflowPhase = "REFLOW_PHASE_PREHEAT"
  /\ buttonStatus = "BUTTON_NONE"

\* C11: reflowPhase goes from Soak to Reflow only in a pass whose clock is
\* more than SOAK_PERIOD ms past the instant Soak was entered
\* (phaseStartTime), never at or before that instant, and in every such pass
\* whatever the temperature; nothing else enters Reflow.
SoakLastsItsPeriod ==
  [][ /\ (pc = "table" /\ reflowPhase = "REFLOW_PHASE_SOAK") =>
           (reflowPhase' = "REFLOW_PHASE_REFLOW"
              <=> now - phaseStartTime > SOAK_PERIOD)
      /\ (reflowPhase' = "REFLOW_PHASE_REFLOW"
             /\ reflowPhase # "REFLOW_PHASE_REFLOW") =>
           (pc = "table" /\ reflowPhase = "REFLOW_PHASE_SOAK") ]_vars

\* the switch of the pass dispatched on Peak with the clock past
\* phaseStartTime + PEAK_PERIOD
PeakTimedOut ==
  /\ switchPhase = "REFLOW_PHASE_PEAK"
  /\ ULongGT(now, switchTime + PEAK_PERIOD)

\* C12: a pass whose switch runs the Peak case with the clock past
\* phaseStartTime + PEAK_PERIOD ends with the heater LOW, ovenStatus
\* OVEN_OFF and reflowPhase Cool, whatever the temperature and whether or
\* not a press is pending.
PeakTimeoutForcesCool ==
  PassEnd /\ PeakTimedOut =>
    /\ ssrPin = "LOW"
    /\ ovenStatus = "OVEN_OFF"
    /\ reflowPhase = "REFLOW_PHASE_COOL"

\* C12 witness: Peak has timed out in a pass that began with the heater
\* called for (100 degrees) and a press pending.
PeakTimeoutForcesCoolWitness ==
  /\ PassEnd
  /\ PeakTimedOut
  /\ startPhase = "REFLOW_PHASE_PEAK"
  /\ startButton = "BUTTON_1"
  /\ temp = COOL_TEMPERATURE
  /\ reflowPhase = "REFLOW_PHASE_COOL"

\* the time since the buzzer was switched on (buzzerPeriod is that instant
\* plus BUZZER_TIME, line 388)
BuzzerElapsed == now - (buzzerPeriod - BUZZER_TIME)

\* C13: the pass that moves Cool to Complete switches the buzzer on and sets
\* buzzerPeriod to the clock plus 1000; the buzzer is on while the phase is
\* Complete; Complete goes to Idle, with the buzzer switched off, in the
\* first pass whose clock is past buzzerPeriod and in no pass before; so
\* the buzzer is on for 1000 ms from entry: at the end of a pass it is never
\* on later than that.
BuzzerOnForItsPeriod ==
  /\ [][ /\ (reflowPhase' = "REFLOW_PHASE_COMPLETE"
               /\ reflowPhase # "REFLOW_PHASE_COMPLETE") =>
             /\ pc = "table" /\ reflowPhase = "REFLOW_PHASE_COOL"
             /\ buzzerPin' = "HIGH"
             /\ buzzerPeriod' = now + BUZZER_TIME
         /\ (pc = "table" /\ reflowPhase = "REFLOW_PHASE_COMPLETE") =>
             IF BuzzerElapsed > BUZZER_TIME
               THEN reflowPhase' = "REFLOW_PHASE_IDLE" /\ buzzerPin' = "LOW"
               ELSE UNCHANGED <<reflowPhase, buzzerPin>> ]_vars
  /\ [](reflowPhase = "REFLOW_PHASE_COMPLETE" => buzzerPin = "HIGH")
  /\ [](PassEnd /\ buzzerPin = "HIGH" => BuzzerElapsed <= BUZZER_TIME)

\* C13 without its last part: how the buzzer is switched on, kept on while
\* the phase is Complete and switched off by the Complete case.
BuzzerWhileComplete ==
  /\ [][ /\ (reflowPhase' = "REFLOW_PHASE_COMPLETE"
               /\ reflowPhase # "REFLOW_PHASE_COMPLETE") =>
             /\ pc = "table" /\ reflowPhase = "REFLOW_PHASE_COOL"
             /\ buzzerPin' = "HIGH"
             /\ buzzerPeriod' = now + BUZZER_TIME
         /\ (pc = "table" /\ reflowPhase = "REFLOW_PHASE_COMPLETE") =>
             IF BuzzerElapsed > BUZZER_TIME
               THEN reflowPhase' = "REFLOW_PHASE_IDLE" /\ buzzerPin' = "LOW"
               ELSE UNCHANGED <<reflowPhase, buzzerPin>> ]_vars
  /\ [](reflowPhase = "REFLOW_PHASE_COMPLETE" => buzzerPin = "HIGH")

\* the phase table is about to run the ramp rule: Preheat below
\* SOAK_TEMPERATURE or Reflow below PEAK_TEMPERATURE
Ramping ==
  /\ pc = "table"
  /\ \/ reflowPhase = "REFLOW_PHASE_PREHEAT" /\ temp < SOAK_TEMPERATURE
     \/ reflowPhase = "REFLOW_PHASE_REFLOW" /\ temp < PEAK_TEMPERATURE

\* C14: in every pass in Preheat below SOAK_TEMPERATURE or in Reflow below
\* PEAK_TEMPERATURE the phase table writes the heater HIGH if the rise since
\* the phase began is less than 3 degrees per second of the time since the
\* phase began, and LOW if it is as much (exactly 3 degrees per second) or
\* more; phase and phase context stay as they are.
RampRule ==
  [][ Ramping =>
        /\ ( (temp - phaseStartTemp) * 1000 < (now - phaseStartTime) * 3
               => ssrPin' = "HIGH" )
        /\ ( (temp - phaseStartTemp) * 1000 = (now - phaseStartTime) * 3
               => ssrPin' = "LOW" )
        /\ ( (temp - phaseStartTemp) * 1000 > (now - phaseStartTime) * 3
               => ssrPin' = "LOW" )
        /\ UNCHANGED <<reflowPhase, phaseStartTime, phaseStartTemp>> ]_vars

\* C14 witness: in Reflow the phase table has switched the heater off on a
\* rise of 3 degrees in the 1000 ms since the phase began.
RampRuleWitness ==
  /\ pc = "cancel"
  /\ switchPhase = "REFLOW_PHASE_REFLOW"
  /\ reflowPhase = "REFLOW_PHASE_REFLOW"
  /\ startStatus = "OVEN_ON"
  /\ temp - phaseStartTemp = 3
  /\ now - phaseStartTime = 1000
  /\ ssrPin = "LOW"

\* C15: when the sensor timer has fired k times nextRead is its setup value
\* plus 200 k, and when the display timer has fired k times nextDisplay is
\* its setup value plus 1000 k, whatever the clock was when they fired; in
\* one pass of loop() each timer fires at most once, the sensor timer in the
\* step that begins the pass and the display timer in the step after the
\* fault override, and only with the clock past its next-due value.
TimersDriftFree ==
  /\ [](/\ nextRead = SETUP_DELAY + 200 * reads
        /\ nextDisplay = SETUP_DELAY + 1000 * displays)
  /\ [][ dwells' = dwells =>
           /\ reads' = reads \/ reads' = reads + 1
           /\ reads' # reads => pc = "read" /\ ULongGT(now', nextRead)
           /\ displays' = displays \/ displays' = displays + 1
           /\ displays' # displays =>
                pc = "display" /\ ULongGT(now, nextDisplay) ]_vars

\* C15 witness: both timers have fired with the clock 201 ms past the value
\* they were due at.
TimersDriftFreeWitness ==
  /\ PassEnd
  /\ dwells = 0
  /\ now = SETUP_DELAY + 201
  /\ reads = 1
  /\ displays = 1
  /\ nextRead = SETUP_DELAY + 200
  /\ nextDisplay = SETUP_DELAY + 1000
  /\ readResult = "ok"

\* the off-states of C17
InertPhases ==
  {"REFLOW_PHASE_TOO_HOT", "REFLOW_PHASE_ERROR", "REFLOW_PHASE_COOL",
   "REFLOW_PHASE_COMPLETE"}

\* the phase a pass that began in one of them ends in, by the rows of the
\* phase table for TooHot, Error, Cool and Complete and the fault override:
\* the press does not enter
InertPhaseAfter ==
  IF IsFault(temp) THEN "REFLOW_PHASE_ERROR"
  ELSE CASE startPhase = "REFLOW_PHASE_TOO_HOT" ->
              IF temp < ROOM_TEMPERATURE THEN "REFLOW_PHASE_IDLE"
                                         ELSE "REFLOW_PHASE_TOO_HOT"
         [] startPhase = "REFLOW_PHASE_ERROR" -> "REFLOW_PHASE_IDLE"
         [] startPhase = "REFLOW_PHASE_COOL" ->
              IF temp <= COOL_TEMPERATURE THEN "REFLOW_PHASE_COMPLETE"
                                          ELSE "REFLOW_PHASE_COOL"
         [] OTHER ->
              IF ULongGT(now, buzzerPeriod) THEN "REFLOW_PHASE_IDLE"
                                            ELSE "REFLOW_PHASE_COMPLETE"

\* C17: a pass that begins in TooHot, Error, Cool or Complete ends with the
\* phase, ovenStatus, the heater, the buzzer and the phase context that the
\* reading and the clock alone determine, the same with a press pending as
\* without; with a press pending the phase table does not run the Idle row
\* and the cancel check changes nothing, and the press is gone when the
\* pass ends, so it starts no run later.
PressInertWhenOff ==
  /\ [][ ( /\ startPhase \in InertPhases
           /\ startButton = "BUTTON_1"
           /\ pc \in {"table", "cancel"} ) =>
           /\ buttonStatus = "BUTTON_1"
           /\ pc = "table" => reflowPhase \in InertPhases
           /\ pc = "cancel" =>
                /\ pc' = "debounce"
                /\ UNCHANGED <<reflowPhase, ovenStatus, ssrPin, buzzerPin,
                               phaseStartTime, phaseStartTemp>> ]_vars
  /\ [](PassEnd /\ startPhase \in InertPhases =>
          /\ reflowPhase = InertPhaseAfter
          /\ ovenStatus = "OVEN_OFF"
          /\ ssrPin = "LOW"
          /\ phaseStartTime = switchTime
          /\ phaseStartTemp = switchTemp
          /\ reflowPhase = "REFLOW_PHASE_COMPLETE" => buzzerPin = "HIGH"
          /\ ( startPhase = "REFLOW_PHASE_COMPLETE"
                 /\ reflowPhase = "REFLOW_PHASE_IDLE" ) => buzzerPin = "LOW"
          /\ startButton = "BUTTON_1" => buttonStatus = "BUTTON_NONE")

\* C17 witness: Cool has gone to Complete in a pass that began with a press
\* pending.
PressInertWhenOffWitness ==
  /\ PassEnd
  /\ startPhase = "REFLOW_PHASE_COOL"
  /\ startButton = "BUTTON_1"
  /\ readResult # "fault"
  /\ reflowPhase = "REFLOW_PHASE_COMPLETE"
  /\ buzzerPin = "HIGH"
  /\ buttonStatus = "BUTTON_NONE"

BuzzerOnlyInComplete ==
  PassEnd /\ buzzerPin = "HIGH" => reflowPhase = "REFLOW_PHASE_COMPLETE"

\* C20: a fault code is never treated as a temperature: while temp holds a
\* fault code reflowPhase is Error, from the fault test of the pass that read
\* it on, and ovenStatus is OFF from the second assignment of that test on,
\* so no case but the Error case runs on a fault code; and neither the LCD
\* nor the serial log prints a fault code as a temperature.
FaultNeverATemperature ==
  /\ IsFault(temp) => reflowPhase = "REFLOW_PHASE_ERROR"
  /\ IsFault(temp) /\ pc # "fault" => ovenStatus = "OVEN_OFF"
  /\ ~ IsFault(lcdOut.value)
  /\ ~ IsFault(serialOut.value)

\* C20 witness: a pass that started with the oven on has read a fault code,
\* the display timer was due in it and the LCD has shown the error text.
FaultNeverATemperatureWitness ==
  /\ PassEnd
  /\ startStatus = "OVEN_ON"
  /\ readResult = "fault"
  /\ IsFault(temp)
  /\ lcdOut.error
  /\ lcdOut.label = "REFLOW_PHASE_ERROR"

\* C16: a started profile always ends: if the loop keeps running and the
\* clock keeps advancing, then whatever the sensor reads, once reflowPhase
\* is Preheat it is eventually Idle again, and the heater is not HIGH for
\* ever.
StartedProfileEnds ==
  []<><<ClockAdvance>>_vars =>
    /\ (reflowPhase = "REFLOW_PHASE_PREHEAT")
          ~> (reflowPhase = "REFLOW_PHASE_IDLE")
    /\ []<>(ssrPin = "LOW")

====
